---- MODULE Spec2Model ----
(***************************************************************************)
(* mongo-collection-archiver: the archival run of internal/archive         *)
(* (Archiver.Run, archiveDocumentsAndDelete, archiveDocuments) over the    *)
(* MongoDB document source of internal/source and a path-addressed store.  *)
(*                                                                         *)
(* Time is counted in units of 12 hours, so that one calendar day is Day   *)
(* units: instant 2d is UTC midnight of day d and 2d+1 is a later instant  *)
(* of the same day.  A document is its id; its serialized bytes are the    *)
(* one-token sequence <<id>>, and NL is the newline byte.                  *)
(***************************************************************************)
EXTENDS Integers, Sequences, FiniteSets, TLC

\* Bounds of the model.
MaxDay == 3
NumDocs == 2
MaxInserts == 1

\* time.Hour * 24, in the model's unit of 12 hours.
Day == 2
\* The separator byte written after every document.
NL == 0

Days == 0 .. (MaxDay - 1)
Instants == 0 .. (MaxDay * Day - 1)
Targets == 0 .. (MaxDay * Day)

----------------------------------------------------------------------------
\* time.Time helpers as the code uses them.

Truncate(t) == t - (t % Day)

AddDate1(t) == t + Day

Before(t, u) == t < u

\* path.Join(Format("2006"), Format("01"), Format("02") + ".json.gz"): the
\* calendar date of the instant, the time of day is dropped.
fileName(date) == date \div Day

----------------------------------------------------------------------------
\* Errors.  An error value is the set of its chains, each chain the messages
\* from the outermost wrapper down to the collaborator's own error.  nil is
\* the empty set.

Nil == {}

New(msg) == {<<msg>>}

Wrap(msg, e) == {<<msg>> \o c : c \in e}

Join(e1, e2) == e1 \cup e2

\* errors.Is(e, leaf): some chain of e ends in the collaborator error leaf.
Is(e, leaf) == \E c \in e : c[Len(c)] = leaf

CtxErr == New("context canceled")

----------------------------------------------------------------------------
\* The MongoDB document source (a collection is a sequence of documents in
\* natural order).

\* Mutant of InWindow: the date is not truncated to its day.
InWindowUntruncated(createdAt, date) ==
    /\ createdAt >= date
    /\ createdAt < AddDate1(date)

\* "$gte": t, "$lt": t.AddDate(0, 0, 1), with t := date.Truncate(time.Hour * 24)
InWindow(createdAt, date) ==
    /\ createdAt >= Truncate(date)
    /\ createdAt < AddDate1(Truncate(date))

FindAllFromDate(coll, date) ==
    SelectSeq(coll, LAMBDA r : InWindow(r.createdAt, date))

\* Mutant of DeleteAllFromDate: nothing is removed.
DeleteNone(coll, date) == coll

DeleteAllFromDate(coll, date) ==
    SelectSeq(coll, LAMBDA r : ~InWindow(r.createdAt, date))

EarliestCreatedAt(coll) ==
    CHOOSE t \in {coll[i].createdAt : i \in 1 .. Len(coll)} :
        \A i \in 1 .. Len(coll) : t <= coll[i].createdAt

\* bson.MarshalExtJSON of a document: its serialized bytes.
MarshalExtJSON(r) == <<r.id>>

----------------------------------------------------------------------------
\* The store (files by path) and what a reader gets back from a file.

NoFile == [exists |-> FALSE, bytes |-> <<>>, gz |-> FALSE]

\* os.Create: the file exists, truncated.
CreatedFile == [exists |-> TRUE, bytes |-> <<>>, gz |-> FALSE]

RECURSIVE Lines(_, _)
\* bufio.Scanner over the decompressed bytes: the lines, without their
\* terminators; a last line without terminator is a line too.
Lines(bytes, cur) ==
    IF bytes = <<>>
    THEN IF cur = <<>> THEN <<>> ELSE <<cur>>
    ELSE IF Head(bytes) = NL
         THEN <<cur>> \o Lines(Tail(bytes), <<>>)
         ELSE Lines(Tail(bytes), Append(cur, Head(bytes)))

ReadError == <<"read error">>

\* mockStorage.read / readFile: gunzip, then split into lines.  A file that
\* holds no complete gzip stream cannot be read.
read(f) == IF f.exists /\ f.gz THEN Lines(f.bytes, <<>>) ELSE ReadError

----------------------------------------------------------------------------
\* State.

VARIABLES
    a,        \* the Archiver: skipDelete, ignoreFileExistsError, delay
    target,   \* the retention cutoff passed to Run
    ctxDone,  \* the run's context has been cancelled
    docs,     \* the collection of the document source
    files,    \* the store: path -> file
    pc,       \* where Run is
    date,     \* the loop's Day cursor
    total,    \* days archived so far
    err,      \* the error value in hand (Run's result once pc = "done")
    wr,       \* the open sink w and gzip writer gw of the current Day
    res,      \* the streaming result of the current Day
    log,      \* history of the calls made on the collaborators
    docs0,    \* the collection when the run started
    files0,   \* the store when the run started
    run,      \* the number of the run: 1, or 2 when the pipeline is run again
    prev      \* the outcomes of the runs before this one

vars == <<a, target, ctxDone, docs, files, pc, date, total, err, wr, res,
          log, docs0, files0, run, prev>>

NoWriter == [w |-> "none", gw |-> "none", buf |-> <<>>, gwErr |-> Nil]

NoResult == [pending |-> <<>>, yielded |-> <<>>, err |-> Nil, cursor |-> "none"]

Call(op, d, ok) == [op |-> op, date |-> d, ok |-> ok]

\* A collection in insertion order: document i was inserted i-th.  The
\* relative order of documents of different days is never observed (a query
\* or a deletion selects one day's window, the earliest timestamp is a
\* minimum), so collections are taken up to that order: days ascend along
\* the sequence, the order within a day is free.
Collections ==
    UNION {{[i \in 1 .. n |-> [id |-> i, createdAt |-> f[i]]] :
                f \in {g \in [1 .. n -> Instants] :
                          \A i \in 1 .. n : \A j \in i .. n :
                              Truncate(g[i]) <= Truncate(g[j])}} :
           n \in 0 .. NumDocs}

\* Stores with at most one file already present; as in the tests, a file
\* that is already there holds no bytes.
Stores ==
    {[p \in Days |-> IF p \in pre THEN CreatedFile ELSE NoFile] :
        pre \in {{}} \cup {{p} : p \in Days}}

Archivers ==
    [skipDelete : BOOLEAN, ignoreFileExistsError : BOOLEAN, delay : {0, 1}]

InitRun ==
    /\ ctxDone = FALSE
    /\ pc = "Run"
    /\ date = 0
    /\ total = 0
    /\ err = Nil
    /\ wr = NoWriter
    /\ res = NoResult
    /\ log = <<>>
    /\ docs0 = docs
    /\ files0 = files

Init ==
    /\ a \in Archivers
    /\ target \in Targets
    /\ docs \in Collections
    /\ files \in Stores
    /\ run = 1
    /\ prev = <<>>
    /\ InitRun

----------------------------------------------------------------------------
\* Archiver.Run

\* Run returns e.
Return(e) ==
    /\ pc' = "done"
    /\ err' = e

\* Mutant of FirstDate: the earliest timestamp is not truncated to its day.
FirstDateUntruncated(earliest) == earliest

\* The loop's first Day: earliest.Truncate(time.Hour * 24).
FirstDate(earliest) == Truncate(earliest)

\* Mutant of EarliestError: the failure of EarliestCreatedAt is swallowed.
EarliestErrorSwallowed(e) == Nil

\* return fmt.Errorf("failed to get earliest created at: %w", err)
EarliestError(e) == Wrap("failed to get earliest created at", e)

\* The first step of Run: resolve the earliest document.  FindOne on a
\* collection without documents decodes to an error.
RunEarliest ==
    /\ pc = "Run"
    /\ \E fault \in BOOLEAN :
        IF fault \/ docs = <<>>
        THEN /\ Return(EarliestError(
                        New(IF fault THEN "earliest fault" ELSE "no documents")))
             /\ log' = Append(log, Call("EarliestCreatedAt", 0, FALSE))
             /\ UNCHANGED date
        ELSE /\ date' = FirstDate(EarliestCreatedAt(docs))
             /\ pc' = "loop"
             /\ log' = Append(log, Call("EarliestCreatedAt", 0, TRUE))
             /\ UNCHANGED err
    /\ UNCHANGED <<a, target, ctxDone, docs, files, total, wr, res, docs0, files0, run, prev>>

\* Mutant of LoopCond: the cutoff taken as inclusive.
LoopCondInclusive(d, t) == d <= t

\* The loop condition: date.Before(target).
LoopCond(d, t) == Before(d, t)

LoopTest ==
    /\ pc = "loop"
    /\ IF LoopCond(date, target)
       THEN pc' = "Exists" /\ UNCHANGED err
       ELSE Return(Nil)
    /\ UNCHANGED <<a, target, ctxDone, docs, files, date, total, wr, res, log,
                   docs0, files0, run, prev>>

\* What archiveDocumentsAndDelete returns to Run is wrapped twice.
ArchivalFailed(e) == Wrap("archival failed", Wrap("failed to archive documents", e))

\* Mutant of DeleteFailed: the failure of the delete step is not reported.
DeleteFailedIgnored(e) == Nil

DeleteFailed(e) == Wrap("archival failed", Wrap("failed to delete documents", e))

\* Mutant of Failed: the archive step's error is not looked at.
FailedNever(e) == FALSE

\* if err := a.archiveDocuments(ctx, date); err != nil
Failed(e) == e /= Nil

\* Mutant of DeleteEnabled: the skip-delete setting is not looked at.
DeleteAlways(arch) == TRUE

\* if !a.skipDelete
DeleteEnabled(arch) == ~arch.skipDelete

\* archiveDocuments has returned e for the current Day: on an error Run
\* returns, otherwise the delete step follows, or the day is counted.
AfterArchive(e) ==
    IF Failed(e)
    THEN /\ Return(ArchivalFailed(e))
         /\ UNCHANGED total
    ELSE IF DeleteEnabled(a)
         THEN pc' = "Delete" /\ UNCHANGED <<err, total>>
         ELSE pc' = "select" /\ total' = total + 1 /\ UNCHANGED err

\* Mutant of ExistsOutcome: no guard on an existing file, it is created anew.
ExistsOutcomeOverwrite(fault, exists, ignore) ==
    IF fault THEN "fail"
    ELSE IF exists /\ ignore THEN "skip" ELSE "create"

\* Mutant of ExistsOutcome: under the ignore-existing policy the existing
\* file is written again.
ExistsOutcomeRewrite(fault, exists, ignore) ==
    IF fault THEN "fail"
    ELSE IF exists /\ ~ignore THEN "conflict" ELSE "create"

\* The outcome of the existence check: "fail", "skip", "conflict" or "create".
ExistsOutcome(fault, exists, ignore) ==
    IF fault THEN "fail"
    ELSE IF exists
         THEN IF ignore THEN "skip" ELSE "conflict"
         ELSE "create"

\* archiveDocuments returns e after the calls `calls`.
ArchiveReturns(calls, e) ==
    /\ log' = log \o calls \o <<Call("archiveDocuments", date, e = Nil)>>
    /\ AfterArchive(e)

\* a.store.Exists and the guard on it.
StoreExists ==
    /\ pc = "Exists"
    /\ \E fault \in BOOLEAN :
        LET out == ExistsOutcome(fault, files[fileName(date)].exists,
                                 a.ignoreFileExistsError) IN
        CASE out = "fail" ->
                ArchiveReturns(<<Call("Exists", date, FALSE)>>,
                               Wrap("failed to check if file exists", New("exists fault")))
          [] out = "conflict" ->
                ArchiveReturns(<<Call("Exists", date, TRUE)>>, New("target file exists"))
          [] out = "skip" ->
                ArchiveReturns(<<Call("Exists", date, TRUE)>>, Nil)
          [] out = "create" ->
                /\ log' = Append(log, Call("Exists", date, TRUE))
                /\ pc' = "Create"
                /\ UNCHANGED <<err, total>>
    /\ UNCHANGED <<a, target, ctxDone, docs, files, date, wr, res, docs0, files0, run, prev>>

\* a.store.Create, then gzip.NewWriterLevel on the sink (which cannot fail
\* for gzip.DefaultCompression and writes nothing yet).
StoreCreate ==
    /\ pc = "Create"
    /\ \E fault \in BOOLEAN :
        IF fault
        THEN /\ ArchiveReturns(<<Call("Create", date, FALSE)>>, New("create fault"))
             /\ UNCHANGED <<files, wr>>
        ELSE /\ files' = [files EXCEPT ![fileName(date)] = CreatedFile]
             /\ wr' = [w |-> "open", gw |-> "open", buf |-> <<>>, gwErr |-> Nil]
             /\ log' = Append(log, Call("Create", date, TRUE))
             /\ pc' = "Find"
             /\ UNCHANGED <<err, total>>
    /\ UNCHANGED <<a, target, ctxDone, docs, date, res, docs0, files0, run, prev>>

\* a.source.FindAllFromDate: the cursor over the Day's documents, or the
\* query's error kept in the result.
Find ==
    /\ pc = "Find"
    /\ \E fault \in BOOLEAN :
        /\ res' = IF fault
                  THEN [pending |-> <<>>, yielded |-> <<>>,
                        err |-> New("find fault"), cursor |-> "none"]
                  ELSE [pending |-> FindAllFromDate(docs, date), yielded |-> <<>>,
                        err |-> Nil, cursor |-> "open"]
        /\ log' = Append(log, Call("FindAllFromDate", date, ~fault))
    /\ pc' = "Iter"
    /\ UNCHANGED <<a, target, ctxDone, docs, files, date, total, err, wr, docs0, files0, run, prev>>

\* Mutant of WriteDoc: the separator is not written.
WriteDocNoNewline(buf, doc) == buf \o MarshalExtJSON(doc)

\* What the gzip writer holds after one document was copied into it.
WriteDoc(buf, doc) == buf \o MarshalExtJSON(doc) \o <<NL>>

\* Iter's deferred function: cursor.Err() and cursor.Close(), each joined
\* into the result's error.
CursorDone(r, cursorErr, closeErr) ==
    [r EXCEPT !.cursor = "closed",
              !.err = Join(Join(r.err, cursorErr), closeErr)]

CursorFaults == {Nil, New("cursor fault")}

\* Mutant of FirstDeferred: the gzip writer's close is left out.
FirstDeferredSink == "wClose"

\* Where archiveDocuments goes when it returns after Create: the deferred
\* functions run last registered first, gw.Close before w.Close.
FirstDeferred == "gwClose"

\* One turn of `for doc := range res.Iter(ctx)`.
Iter ==
    /\ pc = "Iter"
    /\ \/ \* the query had failed: Iter yields nothing
          /\ res.err /= Nil
          /\ pc' = "Err"
          /\ UNCHANGED <<res, wr, err>>
       \/ \* a document is yielded and copied into the gzip writer
          /\ res.err = Nil /\ res.pending /= <<>>
          /\ res' = [res EXCEPT !.pending = Tail(res.pending),
                                !.yielded = Append(res.yielded, Head(res.pending))]
          /\ wr' = [wr EXCEPT !.buf = WriteDoc(wr.buf, Head(res.pending))]
          /\ pc' = "Iter"
          /\ UNCHANGED err
       \/ \* a document is yielded and the copy fails: archiveDocuments
          \* returns the write error, Iter's deferred function still runs
          /\ res.err = Nil /\ res.pending /= <<>>
          /\ \E closeErr \in CursorFaults :
                res' = CursorDone([res EXCEPT !.pending = Tail(res.pending),
                                              !.yielded = Append(res.yielded, Head(res.pending))],
                                  Nil, closeErr)
          /\ wr' = [wr EXCEPT !.gwErr = New("write fault")]
          /\ err' = New("write fault")
          /\ pc' = FirstDeferred
       \/ \* cursor.Next fails, or decoding or marshalling the document does
          /\ res.err = Nil /\ res.pending /= <<>>
          /\ \E closeErr \in CursorFaults :
                res' = CursorDone(res, New("cursor fault"), closeErr)
          /\ pc' = "Err"
          /\ UNCHANGED <<wr, err>>
       \/ \* the cursor is exhausted
          /\ res.err = Nil /\ res.pending = <<>>
          /\ \E closeErr \in CursorFaults : res' = CursorDone(res, Nil, closeErr)
          /\ pc' = "Err"
          /\ UNCHANGED <<wr, err>>
    /\ UNCHANGED <<a, target, ctxDone, docs, files, date, total, log, docs0, files0, run, prev>>

\* Mutant of TerminalError: the result's error is not looked at.
TerminalErrorIgnored(r) == Nil

\* mongoStreamingResult.Err
TerminalError(r) == r.err

\* if err = res.Err(); err != nil { return err }
ResErr ==
    /\ pc = "Err"
    /\ err' = TerminalError(res)
    /\ pc' = FirstDeferred
    /\ UNCHANGED <<a, target, ctxDone, docs, files, date, total, wr, res, log,
                   docs0, files0, run, prev>>

\* Mutant of GzipStream: nothing is written to the sink when no document
\* was.
GzipStreamLazy(f, buf) ==
    IF buf = <<>> THEN f ELSE [f EXCEPT !.bytes = buf, !.gz = TRUE]

\* The bytes of a complete gzip stream of buf, as a reader decompresses
\* them; gw.Close writes the header and the trailer also when nothing was
\* written before.
GzipStream(f, buf) == [f EXCEPT !.bytes = buf, !.gz = TRUE]

\* Mutant of GzipJoin: the gzip writer's close error takes the place of the
\* error in hand.
GzipJoinReplaces(e, cErr) ==
    IF cErr /= Nil THEN Wrap("failed to close gzip writer", cErr) ELSE e

\* The error in hand once the gzip writer was closed with cErr.
GzipJoin(e, cErr) ==
    IF cErr /= Nil THEN Join(e, Wrap("failed to close gzip writer", cErr)) ELSE e

\* The deferred gw.Close(): flushes the stream into the sink; a writer that
\* has failed before returns that error again.
GzipClose ==
    /\ pc = "gwClose"
    /\ \E fault \in BOOLEAN :
        LET cErr == IF wr.gwErr /= Nil THEN wr.gwErr
                    ELSE IF fault THEN New("gzip close fault") ELSE Nil IN
        /\ err' = GzipJoin(err, cErr)
        /\ files' = IF cErr = Nil
                    THEN [files EXCEPT ![fileName(date)] = GzipStream(@, wr.buf)]
                    ELSE files
        /\ wr' = [wr EXCEPT !.gw = "closed"]
        /\ log' = Append(log, Call("gw.Close", date, cErr = Nil))
    /\ pc' = "wClose"
    /\ UNCHANGED <<a, target, ctxDone, docs, date, total, res, docs0, files0, run, prev>>

\* Mutant of CloseJoin: the sink's close error is dropped.
CloseJoinDropped(e, cErr) == e

\* The error archiveDocuments returns once the sink was closed with cErr.
CloseJoin(e, cErr) ==
    IF cErr /= Nil THEN Join(e, Wrap("failed to close file", cErr)) ELSE e

\* The deferred w.Close(), after which archiveDocuments returns.
FileClose ==
    /\ pc = "wClose"
    /\ \E fault \in BOOLEAN :
        LET cErr == IF fault THEN New("close fault") ELSE Nil IN
        ArchiveReturns(<<Call("w.Close", date, ~fault)>>, CloseJoin(err, cErr))
    /\ wr' = [wr EXCEPT !.w = "closed"]
    /\ UNCHANGED <<a, target, ctxDone, docs, files, date, res, docs0, files0, run, prev>>

\* a.source.DeleteAllFromDate
Delete ==
    /\ pc = "Delete"
    /\ \E fault \in BOOLEAN :
        IF fault
        THEN /\ Return(DeleteFailed(New("delete fault")))
             /\ log' = Append(log, Call("DeleteAllFromDate", date, FALSE))
             /\ UNCHANGED <<docs, total>>
        ELSE /\ docs' = DeleteAllFromDate(docs, date)
             /\ log' = Append(log, Call("DeleteAllFromDate", date, TRUE))
             /\ total' = total + 1
             /\ pc' = "select"
             /\ UNCHANGED err
    /\ UNCHANGED <<a, target, ctxDone, files, date, wr, res, docs0, files0, run, prev>>

\* Mutant of CancelPoint: the context is looked at in every step.
CancelPointAnywhere(p) == p /= "done"

\* Where Run looks at the context: in the select after a Day, nowhere else.
CancelPoint(p) == p = "select"

\* select: case <-ctx.Done()
SelectDone ==
    /\ CancelPoint(pc)
    /\ ctxDone
    /\ Return(CtxErr)
    /\ UNCHANGED <<a, target, ctxDone, docs, files, date, total, wr, res, log,
                   docs0, files0, run, prev>>

\* The timer of time.After(a.delay) can be received from: at once when the
\* delay is zero, otherwise only after a wait during which the context was
\* not cancelled.
TimerReady(delay, done) == delay = 0 \/ ~done

\* Mutant of NextDate: the loop steps over a day.
NextDateSkips(d) == AddDate1(AddDate1(d))

\* The loop's post statement: date = date.AddDate(0, 0, 1)
NextDate(d) == AddDate1(d)

\* select: case <-time.After(a.delay), then the loop's post statement
SelectTimer ==
    /\ pc = "select"
    /\ TimerReady(a.delay, ctxDone)
    /\ date' = NextDate(date)
    /\ pc' = "loop"
    /\ wr' = NoWriter
    /\ res' = NoResult
    /\ UNCHANGED <<a, target, ctxDone, docs, files, total, err, log, docs0, files0, run, prev>>

\* The environment cancels the run's context (SIGTERM, SIGINT).
Cancel ==
    /\ pc /= "done"
    /\ ~ctxDone
    /\ ctxDone' = TRUE
    /\ UNCHANGED <<a, target, docs, files, pc, date, total, err, wr, res, log,
                   docs0, files0, run, prev>>

\* The steps of a run whose context is never cancelled.
NextUninterrupted ==
    \/ RunEarliest
    \/ LoopTest
    \/ StoreExists
    \/ StoreCreate
    \/ Find
    \/ Iter
    \/ ResErr
    \/ GzipClose
    \/ FileClose
    \/ Delete
    \/ SelectTimer

Next ==
    \/ NextUninterrupted
    \/ SelectDone
    \/ Cancel

Spec == Init /\ [][Next]_vars

\* A run whose context is never cancelled: the pacing delay then has no
\* effect, and is the zero delay of the tests.
InitUninterrupted == Init /\ a.delay = 0

SpecUninterrupted == InitUninterrupted /\ [][NextUninterrupted]_vars

\* The same uninterrupted runs, under which the properties of failing calls
\* (what the archive step returns, how a failure ends the run) are checked
\* apart from the properties of the Day loop.
SpecFailures == InitUninterrupted /\ [][NextUninterrupted]_vars

----------------------------------------------------------------------------
\* Running the pipeline again: a second Run of the same Archiver with the
\* same cutoff, under a fresh context, on what the first run left behind.

Outcome == [err |-> err, total |-> total, docs0 |-> docs0, files0 |-> files0,
            log |-> log]

\* Run has returned and is called again on the same collection and store.
Restart ==
    /\ pc = "done"
    /\ run = 1
    /\ run' = 2
    /\ prev' = Append(prev, Outcome)
    /\ ctxDone' = FALSE
    /\ pc' = "Run"
    /\ date' = 0
    /\ total' = 0
    /\ err' = Nil
    /\ wr' = NoWriter
    /\ res' = NoResult
    /\ log' = <<>>
    /\ docs0' = docs
    /\ files0' = files
    /\ UNCHANGED <<target, docs, files>>

Rerun ==
    /\ Restart
    /\ UNCHANGED a

\* Two runs under the default conflict policy, from an empty store, neither
\* of them cancelled.
InitRerun ==
    /\ a \in {x \in Archivers : ~x.ignoreFileExistsError /\ x.delay = 0}
    /\ target \in Targets
    /\ docs \in Collections
    /\ files = [p \in Days |-> NoFile]
    /\ run = 1
    /\ prev = <<>>
    /\ InitRun

NextRerun == NextUninterrupted \/ Rerun

SpecRerun == InitRerun /\ [][NextRerun]_vars

\* Run is called again on an Archiver constructed with a skipDelete and an
\* ignoreFileExistsError of the caller's choice.
RerunWith ==
    /\ Restart
    /\ a' \in {x \in Archivers : x.delay = 0}

\* A first run under the default policy with deletion enabled, from an
\* empty store, then a second run under any policy.
InitRetry ==
    /\ a = [skipDelete |-> FALSE, ignoreFileExistsError |-> FALSE, delay |-> 0]
    /\ target \in Targets
    /\ docs \in Collections
    /\ files = [p \in Days |-> NoFile]
    /\ run = 1
    /\ prev = <<>>
    /\ InitRun

NextRetry == NextUninterrupted \/ RerunWith

SpecRetry == InitRetry /\ [][NextRetry]_vars

----------------------------------------------------------------------------
\* Another client of the collection inserts documents while Run is between
\* the end of a Day's extraction and the Day's delete.

\* The number of documents inserted so far, among the first k calls.
Inserts(k) == Cardinality({j \in 1 .. k : log[j].op = "Insert"})

\* collection.InsertOne by another client: the document comes last in the
\* collection's natural order, its createdAt is any instant.
Insert ==
    /\ pc \in {"Err", "gwClose", "wClose", "Delete"}
    /\ Inserts(Len(log)) < MaxInserts
    /\ \E t \in Instants :
          /\ docs' = Append(docs, [id |-> NumDocs + Inserts(Len(log)) + 1,
                                   createdAt |-> t])
          /\ log' = Append(log, Call("Insert", t, TRUE))
    /\ UNCHANGED <<a, target, ctxDone, files, pc, date, total, err, wr, res,
                   docs0, files0, run, prev>>

\* A run under the default policy with deletion enabled, from an empty
\* store.
InitInsert ==
    /\ a = [skipDelete |-> FALSE, ignoreFileExistsError |-> FALSE, delay |-> 0]
    /\ target \in Targets
    /\ docs \in Collections
    /\ files = [p \in Days |-> NoFile]
    /\ run = 1
    /\ prev = <<>>
    /\ InitRun

NextInsert == NextUninterrupted \/ Insert

SpecInsert == InitInsert /\ [][NextInsert]_vars

----------------------------------------------------------------------------
\* The document source called on its own, as its tests do: on a collection
\* in any insertion order and for any instant as the date, FindAllFromDate
\* and the iteration of its result, and DeleteAllFromDate.

AllCollections ==
    UNION {{[i \in 1 .. n |-> [id |-> i, createdAt |-> f[i]]] :
                f \in [1 .. n -> Instants]} : n \in 0 .. NumDocs}

InitSource ==
    /\ a = [skipDelete |-> FALSE, ignoreFileExistsError |-> FALSE, delay |-> 0]
    /\ target = 0
    /\ docs \in AllCollections
    /\ files = [p \in Days |-> NoFile]
    /\ run = 1
    /\ prev = <<>>
    /\ ctxDone = FALSE
    /\ pc = "source"
    /\ date \in Instants
    /\ total = 0
    /\ err = Nil
    /\ wr = NoWriter
    /\ res = NoResult
    /\ log = <<>>
    /\ docs0 = docs
    /\ files0 = files

\* res := source.NewMongoDB(collection).FindAllFromDate(ctx, date)
CallFindAllFromDate ==
    /\ pc = "source"
    /\ res' = [pending |-> FindAllFromDate(docs, date), yielded |-> <<>>,
               err |-> Nil, cursor |-> "open"]
    /\ log' = Append(log, Call("FindAllFromDate", date, TRUE))
    /\ pc' = "found"
    /\ UNCHANGED <<a, target, ctxDone, docs, files, date, total, err, wr,
                   docs0, files0, run, prev>>

\* for doc := range res.Iter(ctx) { docs = append(docs, string(doc)) }
CallIter ==
    /\ pc = "found"
    /\ res.pending /= <<>>
    /\ res' = [res EXCEPT !.pending = Tail(res.pending),
                          !.yielded = Append(res.yielded, Head(res.pending))]
    /\ UNCHANGED <<a, target, ctxDone, docs, files, pc, date, total, err, wr, log,
                   docs0, files0, run, prev>>

\* source.NewMongoDB(collection).DeleteAllFromDate(ctx, date)
CallDeleteAllFromDate ==
    /\ pc \in {"source", "found"}
    /\ res.pending = <<>>
    /\ docs' = DeleteAllFromDate(docs, date)
    /\ log' = Append(log, Call("DeleteAllFromDate", date, TRUE))
    /\ pc' = "deleted"
    /\ UNCHANGED <<a, target, ctxDone, files, date, total, err, wr, res,
                   docs0, files0, run, prev>>

NextSource ==
    \/ CallFindAllFromDate
    \/ CallIter
    \/ CallDeleteAllFromDate

SpecSource == InitSource /\ [][NextSource]_vars

----------------------------------------------------------------------------
\* Vocabulary of the properties.

Pos == 1 .. Len(log)

\* The call op(d) was made in this run (whatever it returned).
Called(op, d) == \E k \in Pos : log[k].op = op /\ log[k].date = d

\* The call op(d) was made in this run and returned ok.
Returned(op, d, ok) == \E k \in Pos : log[k] = Call(op, d, ok)

\* The same, before position k of the history.
ReturnedBefore(k, op, d, ok) == \E j \in 1 .. (k - 1) : log[j] = Call(op, d, ok)

DayCalls == {"Exists", "Create", "FindAllFromDate", "DeleteAllFromDate"}

\* The documents of a collection whose timestamp lies on calendar day p.
OnDay(coll, p) == SelectSeq(coll, LAMBDA r : r.createdAt \div Day = p)

\* Midnight of calendar day p.
Midnight(p) == p * Day

\* Calendar day p is as the run found it: its documents and its file.
Untouched(p) ==
    /\ OnDay(docs, p) = OnDay(docs0, p)
    /\ files[p] = files0[p]

\* Run has returned.
Done == pc = "done"

\* The single chain of Run's error when the archive step failed with msgs.
ArchiveError(msgs) == {<<"archival failed", "failed to archive documents">> \o msgs}

----------------------------------------------------------------------------
\* C1: archive before delete.  Every DeleteAllFromDate(d) of a run comes
\* after the archive step for d returned without error in that run: either d
\* was written (Create, the gzip close and the sink close all succeeded
\* before) or the write was skipped because the file was there and the
\* ignore-existing policy is set.
C1_ArchiveBeforeDelete ==
    \A k \in Pos :
        log[k].op = "DeleteAllFromDate" =>
            LET d == log[k].date IN
            /\ ReturnedBefore(k, "archiveDocuments", d, TRUE)
            /\ \/ /\ ReturnedBefore(k, "Create", d, TRUE)
                  /\ ReturnedBefore(k, "gw.Close", d, TRUE)
                  /\ ReturnedBefore(k, "w.Close", d, TRUE)
               \/ /\ a.ignoreFileExistsError
                  /\ files0[d \div Day].exists
                  /\ ~Called("Create", d)

\* A run that deleted one Day after writing it and another after skipping it.
C1_Witness ==
    \E d1, d2 \in Instants :
        /\ Returned("DeleteAllFromDate", d1, TRUE)
        /\ Returned("DeleteAllFromDate", d2, TRUE)
        /\ Called("Create", d1)
        /\ ~Called("Create", d2)
        /\ OnDay(docs0, d1 \div Day) /= <<>>

\* C2: the cutoff is exclusive.  No Exists, Create, FindAllFromDate or
\* DeleteAllFromDate call is made for a Day at or after the cutoff, and such
\* a Day keeps its documents and has no file written.
C2_CutoffExclusive ==
    /\ \A k \in Pos : log[k].op \in DayCalls => log[k].date < target
    /\ \A p \in Days : Midnight(p) >= target => Untouched(p)

\* A successful run that archived a Day and whose cutoff is the midnight of
\* a Day that holds documents.
C2_Witness ==
    /\ Done /\ err = Nil /\ total > 0
    /\ target % Day = 0
    /\ target \in Instants
    /\ OnDay(docs, target \div Day) /= <<>>

\* C3: a written file holds exactly the Day's documents.  For every Day the
\* run wrote without a failure the file's bytes are the Day's documents in
\* extraction order, each followed by one newline, and reading the file
\* back gives those documents; while the Day is current, they are the
\* documents the streaming result yielded.
C3_FileHoldsDay ==
    \A k \in Pos :
        (log[k].op = "archiveDocuments" /\ log[k].ok
            /\ Returned("Create", log[k].date, TRUE)) =>
            LET d == log[k].date
                recs == OnDay(docs0, d \div Day)
                f == files[d \div Day] IN
            /\ f.exists /\ f.gz
            /\ Len(f.bytes) = 2 * Len(recs)
            /\ \A i \in 1 .. Len(recs) :
                  f.bytes[2 * i - 1] = recs[i].id /\ f.bytes[2 * i] = NL
            /\ read(f) = [i \in 1 .. Len(recs) |-> <<recs[i].id>>]
            /\ (d = date /\ pc \in {"Delete", "select", "done"}) => res.yielded = recs

\* A successful run wrote a Day with two documents, the later one inserted
\* first.
C3_Witness ==
    /\ Done /\ err = Nil
    /\ \E d \in Instants :
        /\ Returned("Create", d, TRUE)
        /\ Len(read(files[d \div Day])) = 2
        /\ Len(OnDay(docs0, d \div Day)) = 2
        /\ OnDay(docs0, d \div Day)[1].createdAt > OnDay(docs0, d \div Day)[2].createdAt

\* C4: conflict under the default policy.  When the file of Day d is in the
\* store and the policy is the default one, the existence check ends the
\* run with the conflict error "target file exists": Create is not called
\* for d, the file is as it was, and no document of d is deleted.
C4_ConflictByDefault ==
    ~a.ignoreFileExistsError =>
        \A k \in Pos :
            (log[k].op = "Exists" /\ log[k].ok
                /\ files0[log[k].date \div Day].exists) =>
                LET d == log[k].date IN
                /\ Done
                /\ err = ArchiveError(<<"target file exists">>)
                /\ ~Called("Create", d)
                /\ ~Called("FindAllFromDate", d)
                /\ ~Called("DeleteAllFromDate", d)
                /\ Untouched(d \div Day)

\* A run that archived and deleted a Day, then met the existing file of a
\* later Day that holds documents.
C4_Witness ==
    /\ Done /\ Is(err, "target file exists") /\ total > 0
    /\ ~a.skipDelete
    /\ OnDay(docs, date \div Day) /= <<>>
    /\ docs /= docs0

\* C5: skip under the ignore-existing policy.  With deletion enabled, when
\* the file of Day d is in the store and the ignore-existing policy is set,
\* the archive step returns without error right after the existence check,
\* with no Create and no FindAllFromDate for d and the file as it was, and
\* DeleteAllFromDate(d) is the run's next call.
C5_SkipThenDelete ==
    (a.ignoreFileExistsError /\ ~a.skipDelete) =>
        \A k \in Pos :
            (log[k].op = "Exists" /\ log[k].ok
                /\ files0[log[k].date \div Day].exists) =>
                LET d == log[k].date IN
                /\ ~Called("Create", d)
                /\ ~Called("FindAllFromDate", d)
                /\ files[d \div Day] = files0[d \div Day]
                /\ Len(log) > k
                /\ log[k + 1] = Call("archiveDocuments", d, TRUE)
                /\ IF Len(log) = k + 1
                   THEN pc = "Delete" /\ date = d
                   ELSE log[k + 2].op = "DeleteAllFromDate" /\ log[k + 2].date = d

\* The run skipped the write of a Day that held documents, deleted them,
\* went on to write a later Day, and succeeded.
C5_Witness ==
    /\ Done /\ err = Nil
    /\ a.ignoreFileExistsError
    /\ \E d \in Instants :
        /\ files0[d \div Day].exists
        /\ Returned("DeleteAllFromDate", d, TRUE)
        /\ OnDay(docs0, d \div Day) /= <<>>
        /\ OnDay(docs, d \div Day) = <<>>
        /\ Returned("Create", d + Day, TRUE)

\* C6: no deletion with skipDelete.  With skipDelete set,
\* DeleteAllFromDate is never called and the collection stays what it was
\* when the run started, whatever the run's outcome.
C6_SkipDeleteKeepsSource ==
    a.skipDelete =>
        /\ docs = docs0
        /\ \A k \in Pos : log[k].op /= "DeleteAllFromDate"

\* A successful run with skipDelete that wrote the file of a Day holding
\* documents.
C6_Witness ==
    /\ a.skipDelete /\ Done /\ err = Nil
    /\ \E d \in Instants :
        /\ Returned("Create", d, TRUE)
        /\ OnDay(docs, d \div Day) /= <<>>
        /\ read(files[d \div Day]) /= <<>>
        /\ read(files[d \div Day]) /= ReadError

\* C7: cancellation at the Day boundary.  When the context is cancelled
\* while Run is between two Days (the Day's archive and delete are over, the
\* select not yet passed), then whatever the pacing delay, zero included,
\* Run's only way on is to return the cancellation outcome: the timer case
\* of the select, which leads to the next Day before the cutoff, cannot be
\* taken.
C7_CancelAtBoundary ==
    [][(pc = "select" /\ date + Day < target /\ ~ctxDone /\ ctxDone')
          => ~(ENABLED SelectTimer)']_vars

\* C8: a failed close fails the Day.  When closing the sink or the gzip
\* writer of Day d fails, also after every document was written, the archive
\* step fails: Run returns an error that wraps the close error,
\* DeleteAllFromDate(d) is not called and the source keeps d's documents.
C8_CloseErrorFailsDay ==
    \A k \in Pos :
        LET d == log[k].date IN
        /\ (log[k].op = "w.Close" /\ ~log[k].ok) =>
              /\ Done
              /\ Is(err, "close fault")
              /\ <<"archival failed", "failed to archive documents",
                   "failed to close file", "close fault">> \in err
              /\ ~Called("DeleteAllFromDate", d)
              /\ OnDay(docs, d \div Day) = OnDay(docs0, d \div Day)
        /\ (log[k].op = "gw.Close" /\ ~log[k].ok) =>
              /\ ~Called("DeleteAllFromDate", d)
              /\ OnDay(docs, d \div Day) = OnDay(docs0, d \div Day)
              /\ pc \in {"wClose", "done"}
              /\ Done =>
                    \E leaf \in {"gzip close fault", "write fault"} :
                        <<"archival failed", "failed to archive documents",
                          "failed to close gzip writer", leaf>> \in err

\* Every document of a Day with documents was written and the gzip stream
\* completed, the sink's close failed, and that is the run's only error.
C8_Witness ==
    /\ Done
    /\ err = ArchiveError(<<"failed to close file", "close fault">>)
    /\ ~a.skipDelete
    /\ Returned("gw.Close", date, TRUE)
    /\ Len(read(files[date \div Day])) = Len(OnDay(docs0, date \div Day))
    /\ OnDay(docs, date \div Day) /= <<>>

\* The collection before the first run.
Original == IF run = 1 THEN docs0 ELSE prev[1].docs0

\* Document r is in the collection.
InSource(r) == \E i \in 1 .. Len(docs) : docs[i] = r

\* Document r can be read back from the file of its Day.
InArchive(r) ==
    LET f == files[r.createdAt \div Day] IN
    /\ read(f) /= ReadError
    /\ \E i \in 1 .. Len(read(f)) : read(f)[i] = <<r.id>>

\* Every document that is gone from the source is in an archive file.
NoRecordLost ==
    \A i \in 1 .. Len(Original) : InSource(Original[i]) \/ InArchive(Original[i])

\* No collaborator call of this run has failed.
NoFault == \A k \in Pos : log[k].op /= "archiveDocuments" => log[k].ok

\* The archive step of Day d ended in the conflict error before anything
\* was created, extracted or deleted for d.
ConflictAt(d) ==
    /\ Done
    /\ err = ArchiveError(<<"target file exists">>)
    /\ ~Called("Create", d)
    /\ ~Called("FindAllFromDate", d)
    /\ ~Called("DeleteAllFromDate", d)
    /\ Untouched(d \div Day)

\* C9 as stated: the pipeline run twice under the default conflict policy.
\* After a first run that succeeded and archived at least one Day, a second
\* run in which no collaborator call fails ends in a conflict error, with no
\* deletion for that Day before it; and no record is lost.
C9_SecondRunConflicts ==
    /\ (run = 2 /\ Done /\ NoFault /\ prev[1].err = Nil /\ prev[1].total > 0) =>
            ConflictAt(date)
    /\ NoRecordLost

\* C9, amended: under the default conflict policy the second run ends in
\* the conflict error, with no Create, extraction or deletion for that Day,
\* whenever it reaches a Day whose file is in the store; it does so at its
\* first Day when the first run created that Day's file and the source is
\* what the first run started from.  In every state of both runs, every
\* document gone from the source can be read back from its Day's file.
C9_ConflictWhereFileExists ==
    /\ run = 2 =>
          \A k \in Pos :
              (log[k].op = "Exists" /\ log[k].ok
                  /\ files0[log[k].date \div Day].exists) =>
                  ConflictAt(log[k].date)
    /\ (run = 2 /\ Done /\ NoFault /\ docs0 = prev[1].docs0
            /\ \E k \in 1 .. Len(prev[1].log) :
                  /\ prev[1].log[k].op = "Create" /\ prev[1].log[k].ok
                  /\ prev[1].log[k].date = Truncate(EarliestCreatedAt(docs0))) =>
            ConflictAt(Truncate(EarliestCreatedAt(docs0)))
    /\ NoRecordLost

\* The first run archived and deleted one Day, wrote the next and failed to
\* delete it; the second run met that Day's file and ended in the conflict.
C9_Witness ==
    /\ run = 2 /\ Done
    /\ Is(err, "target file exists")
    /\ Is(prev[1].err, "delete fault")
    /\ prev[1].total > 0
    /\ OnDay(docs, date \div Day) /= <<>>
    /\ \E i \in 1 .. Len(Original) : ~InSource(Original[i])

\* The earliest timestamp of the collection the run started from.
Earliest0 ==
    CHOOSE t \in {docs0[i].createdAt : i \in 1 .. Len(docs0)} :
        \A i \in 1 .. Len(docs0) : docs0[i].createdAt >= t

\* The Exists calls of the run, in order: one opens each Day processed.
DaysProcessed == SelectSeq(log, LAMBDA c : c.op = "Exists")

\* C10: the Days of an undisturbed run.  When no step fails and the context
\* is not cancelled, Run returns success having processed exactly the Days
\* from the day of the earliest document, one calendar day apart, that lie
\* strictly before the cutoff, in that order; the days-archived count is
\* their number, and Days at or after the cutoff are as they were.
C10_DaysOfRun ==
    (Done /\ ~ctxDone /\ \A k \in Pos : log[k].ok) =>
        LET first == Earliest0 - (Earliest0 % Day)
            n == IF target > first THEN ((target - first - 1) \div Day) + 1 ELSE 0
        IN  /\ err = Nil
            /\ total = n
            /\ Len(DaysProcessed) = n
            /\ \A i \in 1 .. n :
                  /\ DaysProcessed[i].date = first + (i - 1) * Day
                  /\ Returned("archiveDocuments", first + (i - 1) * Day, TRUE)
            /\ \A p \in Days : Midnight(p) >= target => Untouched(p)

\* The earliest document is at the last instant of day 0, another lies on
\* day 2, the cutoff is midnight of day 2: the run archived days 0 and 1,
\* reported two Days and left day 2 alone.
C10_Witness ==
    /\ Done /\ ~ctxDone /\ err = Nil
    /\ Earliest0 = Day - 1
    /\ target = 2 * Day
    /\ total = 2
    /\ Returned("Create", 0, TRUE) /\ Returned("Create", Day, TRUE)
    /\ Len(read(files[0])) = 1
    /\ read(files[1]) = <<>>
    /\ ~a.skipDelete
    /\ OnDay(docs, 2) /= <<>>
    /\ Len(docs) = 1

\* C11: the Days of a run follow one another.  The first call for a Day is
\* its Exists; the first Day is the day of the earliest document; every
\* later Day is exactly one calendar day after the Day before it, so that
\* Days strictly increase and none comes twice; every other call belongs
\* to the Day of the call before it, so that all calls of a Day come
\* before the first call of the next.  The Day cursor moves only in the
\* pacing step: until the select of a Day is passed the cursor is that
\* Day, afterwards it is the next day.
C11_DaysInOrder ==
    /\ \A k \in Pos :
          IF k = 1
          THEN log[k].op = "EarliestCreatedAt"
          ELSE IF log[k].op = "Exists"
               THEN /\ log[k].date = IF k = 2
                                      THEN Earliest0 - (Earliest0 % Day)
                                      ELSE log[k - 1].date + Day
                    /\ log[k - 1].op \in
                          {"EarliestCreatedAt", "archiveDocuments", "DeleteAllFromDate"}
                    /\ log[k - 1].ok
               ELSE /\ log[k].date = log[k - 1].date
                    /\ log[k - 1].op /= "EarliestCreatedAt"
    /\ (Len(log) > 1 /\ pc \in {"Create", "Find", "Iter", "Err", "gwClose", "wClose",
                                 "Delete", "select", "done"}) =>
            (date = log[Len(log)].date \/ (pc = "done" /\ err = Nil))
    /\ (Len(log) > 1 /\ pc \in {"loop", "Exists"}) =>
            date = log[Len(log)].date + Day

\* A successful run with deletion that processed three Days, the first and
\* the last holding documents and the one between them none.
C11_Witness ==
    /\ Done /\ err = Nil /\ ~a.skipDelete
    /\ total = 3
    /\ Len(DaysProcessed) = 3
    /\ OnDay(docs0, 0) /= <<>> /\ OnDay(docs0, 2) /= <<>>
    /\ docs = <<>>

\* C12: a failing EarliestCreatedAt fails the run at once.  When
\* EarliestCreatedAt fails, also because the collection holds no document,
\* Run returns an error that wraps that failure; it is the run's only
\* call: no Exists, Create, FindAllFromDate or DeleteAllFromDate is made,
\* and the collection and the store are as they were.
C12_EarliestFailureFailsRun ==
    \A k \in Pos :
        (log[k].op = "EarliestCreatedAt" /\ ~log[k].ok) =>
            /\ Done
            /\ Len(log) = 1
            /\ \E leaf \in {"earliest fault", "no documents"} :
                  /\ err = {<<"failed to get earliest created at", leaf>>}
                  /\ Is(err, leaf)
                  /\ leaf = "no documents" => docs0 = <<>>
            /\ docs = docs0 /\ files = files0
            /\ total = 0

\* The run of an empty collection with a cutoff after day 0: it failed on
\* the missing earliest document.
C12_Witness ==
    /\ Done
    /\ docs0 = <<>>
    /\ Is(err, "no documents")
    /\ target > Day
    /\ log = <<Call("EarliestCreatedAt", 0, FALSE)>>

\* The history l ends in a failed DeleteAllFromDate of a Day whose file was
\* created in it.
DeleteFailedAfterWrite(l) ==
    /\ l /= <<>>
    /\ l[Len(l)].op = "DeleteAllFromDate" /\ ~l[Len(l)].ok
    /\ \E j \in 1 .. Len(l) : l[j] = Call("Create", l[Len(l)].date, TRUE)

\* The run stopped on the failed delete of Day d: its error is the delete
\* error, d's file is complete and holds d's documents, which are all still
\* in the collection.
StoppedArchivedNotRemoved ==
    DeleteFailedAfterWrite(log) =>
        LET d == log[Len(log)].date
            recs == OnDay(docs0, d \div Day) IN
        /\ Done
        /\ err = {<<"archival failed", "failed to delete documents", "delete fault">>}
        /\ read(files[d \div Day]) = [i \in 1 .. Len(recs) |-> <<recs[i].id>>]
        /\ OnDay(docs, d \div Day) = recs

\* The Day on which the run before this one failed to delete.
PrevDay == prev[1].log[Len(prev[1].log)].date

\* Nothing failed in this run but, at most, the existence guard: every call
\* returned without error, and an archive step failed only right after its
\* existence check.
NoFailure ==
    \A k \in Pos :
        log[k].ok \/ (log[k].op = "archiveDocuments" /\ log[k - 1].op = "Exists")

\* The second run has returned, nothing but the existence guard failed in
\* it, and the first run had stopped on a failed delete after the write.
RetriedAfterDeleteFailure ==
    /\ run = 2 /\ Done /\ NoFailure
    /\ DeleteFailedAfterWrite(prev[1].log)

\* The second run skipped the write of Day d, deleted its documents and
\* went on to the end.
PastDay(d) ==
    /\ err = Nil
    /\ ~Called("Create", d)
    /\ files[d \div Day] = files0[d \div Day]
    /\ Returned("DeleteAllFromDate", d, TRUE)
    /\ OnDay(docs, d \div Day) = <<>>

\* C13 as stated: a failed delete of Day d after its file was written stops
\* the run with d archived and not removed; a subsequent run ends in the
\* conflict at d under the default policy, and under the ignore-existing
\* policy (with deletion) skips the write of d, deletes d's documents and
\* goes on.
C13_RetryConflictsOrSkips ==
    /\ StoppedArchivedNotRemoved
    /\ RetriedAfterDeleteFailure =>
          /\ ~a.ignoreFileExistsError => ConflictAt(PrevDay)
          /\ (a.ignoreFileExistsError /\ ~a.skipDelete) => PastDay(PrevDay)

\* C13, amended: the same for a Day d that holds documents.  The second run
\* then starts at d: under the default policy the conflict is its only
\* step, under the ignore-existing policy it skips the write and, with
\* deletion enabled, deletes d's documents and goes on to the end.  When d
\* holds no document, the second run starts after d (or fails for want of
\* any document) and never meets d's file: no conflict under either policy.
C13_RetryWhereDayHasDocuments ==
    /\ StoppedArchivedNotRemoved
    /\ (run = 2 /\ DeleteFailedAfterWrite(prev[1].log)) =>
          IF OnDay(docs0, PrevDay \div Day) /= <<>>
          THEN RetriedAfterDeleteFailure =>
               /\ ~a.ignoreFileExistsError =>
                     /\ ConflictAt(PrevDay)
                     /\ log = <<Call("EarliestCreatedAt", 0, TRUE),
                                Call("Exists", PrevDay, TRUE),
                                Call("archiveDocuments", PrevDay, FALSE)>>
               /\ a.ignoreFileExistsError =>
                     /\ err = Nil
                     /\ ~Called("Create", PrevDay)
                     /\ files[PrevDay \div Day] = files0[PrevDay \div Day]
                     /\ IF a.skipDelete
                        THEN docs = docs0
                        ELSE PastDay(PrevDay)
                     /\ \A p \in Days :
                           (Midnight(p) > PrevDay /\ Midnight(p) < target) =>
                               Returned("Create", Midnight(p), TRUE)
          ELSE /\ ~Called("Exists", PrevDay)
               /\ ~Is(err, "target file exists")
               /\ \A k \in Pos : log[k].op \in DayCalls => log[k].date > PrevDay

\* The first run archived and deleted a Day, wrote the next and failed to
\* delete it; the second run, under the ignore-existing policy, skipped
\* that Day's write, deleted its documents and archived the Day after it.
C13_Witness ==
    /\ RetriedAfterDeleteFailure
    /\ a.ignoreFileExistsError /\ ~a.skipDelete
    /\ prev[1].total = 1
    /\ PastDay(PrevDay)
    /\ OnDay(docs0, PrevDay \div Day) /= <<>>
    /\ total = 2
    /\ Returned("Create", PrevDay + Day, TRUE)

\* C14: under the default policy a file is created at most once.  In a run
\* and across the two runs on the same store, Create is never called for a
\* path whose file is in the store (neither a file that was there when the
\* run started nor one the run created before), and every file that was in
\* the store when a run started is as it was.
C14_CreateOnlyWhereNoFile ==
    ~a.ignoreFileExistsError =>
        /\ \A k \in Pos :
              log[k].op = "Create" =>
                  /\ ~files0[log[k].date \div Day].exists
                  /\ \A j \in 1 .. (k - 1) :
                        log[j].op = "Create" => log[j].date \div Day /= log[k].date \div Day
                  /\ log[k - 1] = Call("Exists", log[k].date, TRUE)
        /\ \A p \in Days : files0[p].exists => files[p] = files0[p]

\* The first run wrote the files of two Days, the first of them with a
\* document, and failed to delete the second; the second run ended in the
\* conflict on that Day and both files are as the first run left them.
C14_Witness ==
    /\ run = 2 /\ Done
    /\ Is(err, "target file exists")
    /\ prev[1].total = 1
    /\ Is(prev[1].err, "delete fault")
    /\ files0[0].exists /\ files0[1].exists
    /\ read(files[0]) /= <<>>
    /\ files = files0

\* C15: what a successful deleting run leaves in the source.  After Run
\* returned success with deletion enabled, no document of a Day before the
\* cutoff is in the collection, every document of a Day at or after the
\* cutoff is still there, in its order, and so every remaining document,
\* the earliest among them, has a timestamp at or after the cutoff.
C15_SourceAfterSuccess ==
    (Done /\ err = Nil /\ ~a.skipDelete) =>
        /\ \A p \in Days :
              IF Midnight(p) < target
              THEN OnDay(docs, p) = <<>>
              ELSE OnDay(docs, p) = OnDay(docs0, p)
        /\ \A i \in 1 .. Len(docs) : docs[i].createdAt >= target
        /\ Len(docs) <= Len(docs0)

\* A successful deleting run archived two Days and removed the document of
\* day 0; the document at the cutoff instant, midnight of day 2, remains.
C15_Witness ==
    /\ Done /\ err = Nil /\ ~a.skipDelete
    /\ target = 2 * Day
    /\ total = 2
    /\ Len(docs0) = 2
    /\ OnDay(docs0, 0) /= <<>>
    /\ Len(docs) = 1
    /\ docs[1].createdAt = target

\* The first instant of the day of instant d.
WindowStart(d) == Day * (d \div Day)

\* The documents of coll with a timestamp from the start of d's day up to,
\* but not at, the start of the next day; and the others.
Within(coll, d) ==
    SelectSeq(coll, LAMBDA r : WindowStart(d) <= r.createdAt
                                 /\ r.createdAt < WindowStart(d) + Day)

Without(coll, d) ==
    SelectSeq(coll, LAMBDA r : r.createdAt < WindowStart(d)
                                 \/ r.createdAt >= WindowStart(d) + Day)

\* C16: the window of a date.  For every date d, midnight or not,
\* FindAllFromDate(d) yields exactly the documents whose createdAt lies in
\* [truncate(d), truncate(d) + 1 day), in the collection's order, and
\* DeleteAllFromDate(d) removes exactly those: a document at the window's
\* start is yielded and removed, a document just before the start or
\* exactly at the end is neither yielded nor removed.
C16_WindowHalfOpen ==
    /\ pc = "found" =>
          /\ res.yielded \o res.pending = Within(docs0, date)
          /\ docs = docs0
    /\ pc = "deleted" =>
          /\ docs = Without(docs0, date)
          /\ res.cursor = "open" => res.yielded = Within(docs0, date)
    /\ pc \in {"found", "deleted"} =>
          \A i \in 1 .. Len(docs0) :
              LET r == docs0[i]
                  got == \E j \in 1 .. Len(res.yielded \o res.pending) :
                            (res.yielded \o res.pending)[j] = r
              IN  /\ r.createdAt = WindowStart(date) =>
                        /\ pc = "found" => got
                        /\ pc = "deleted" => ~InSource(r)
                  /\ (r.createdAt = WindowStart(date) - 1
                         \/ r.createdAt = WindowStart(date) + Day) =>
                        /\ ~got
                        /\ InSource(r)

\* For a date that is not a midnight, a collection with a document at the
\* end of the date's window inserted before one at the window's start: the
\* second was yielded, then removed, and the first is the one left.
C16_Witness ==
    /\ pc = "deleted"
    /\ date % Day /= 0
    /\ Len(docs0) = 2
    /\ docs0[1].createdAt = WindowStart(date) + Day
    /\ docs0[2].createdAt = WindowStart(date)
    /\ res.yielded = <<docs0[2]>>
    /\ docs = <<docs0[1]>>

\* The Day of the last call of history l: the Day a failed run stopped on.
FailedDay(l) == l[Len(l)].date

\* The phase a failed run with history l stopped in: resolving the earliest
\* document, the delete step, the existence guard's conflict, or the
\* extraction and writing of the Day's file.
FailedPhase(l) ==
    CASE l[Len(l)].op = "EarliestCreatedAt" -> "earliest"
      [] l[Len(l)].op = "DeleteAllFromDate" -> "deletion"
      [] l[Len(l)].op = "archiveDocuments" /\ l[Len(l) - 1] = Call("Exists", FailedDay(l), TRUE)
            -> "conflict"
      [] OTHER -> "extraction or writing"

\* C17: the error tells the phase and the Day.  Of two runs that failed,
\* the one after the other, in different phases or on different Days, the
\* errors Run returned are different values.
C17_ErrorTellsPhaseAndDay ==
    (run = 2 /\ Done /\ err /= Nil /\ prev[1].err /= Nil) =>
        ((FailedDay(log) /= FailedDay(prev[1].log)
             \/ FailedPhase(log) /= FailedPhase(prev[1].log)) =>
            err /= prev[1].err)

\* A complete gzip stream of no bytes.
EmptyArchive == [exists |-> TRUE, bytes |-> <<>>, gz |-> TRUE]

\* C18: a Day without documents is archived all the same.  When the archive
\* step of a Day that holds no document returns without error, the Day's
\* file, unless it was in the store already, has been created and is a
\* complete gzip stream that reads back as no document; with deletion
\* enabled the Day's DeleteAllFromDate is the next call.  When no call of
\* the run fails, this is so for every Day without documents from the day
\* of the earliest document up to the cutoff.
C18_EmptyDayArchived ==
    /\ \A k \in Pos :
          (log[k].op = "archiveDocuments" /\ log[k].ok
              /\ OnDay(docs0, log[k].date \div Day) = <<>>) =>
              LET d == log[k].date IN
              /\ IF files0[d \div Day].exists
                 THEN ~Called("Create", d) /\ files[d \div Day] = files0[d \div Day]
                 ELSE /\ Returned("Create", d, TRUE)
                      /\ files[d \div Day] = EmptyArchive
                      /\ read(files[d \div Day]) = <<>>
              /\ ~a.skipDelete =>
                    IF Len(log) = k
                    THEN pc = "Delete" /\ date = d
                    ELSE log[k + 1].op = "DeleteAllFromDate" /\ log[k + 1].date = d
    /\ (Done /\ \A k \in Pos : log[k].ok) =>
          \A p \in Days :
              (Midnight(p) < target /\ Midnight(p) > Earliest0
                  /\ OnDay(docs0, p) = <<>>) =>
                  /\ ~files0[p].exists => files[p] = EmptyArchive
                  /\ ~a.skipDelete => Returned("DeleteAllFromDate", Midnight(p), TRUE)

\* A successful deleting run over documents on days 0 and 2 only: day 1,
\* between them, got an empty archive file and its delete step.
C18_Witness ==
    /\ Done /\ err = Nil /\ ~a.skipDelete
    /\ OnDay(docs0, 0) /= <<>> /\ OnDay(docs0, 1) = <<>> /\ OnDay(docs0, 2) /= <<>>
    /\ ~files0[1].exists
    /\ files[1] = EmptyArchive
    /\ read(files[1]) = <<>>
    /\ Returned("DeleteAllFromDate", Midnight(1), TRUE)
    /\ Returned("Create", Midnight(2), TRUE)

\* C19: no Day when the earliest document is not before the cutoff.  When
\* the earliest timestamp is at or after the cutoff, also for a cutoff that
\* is not a midnight and lies in the earliest document's day, Run makes no
\* Exists, Create, FindAllFromDate or DeleteAllFromDate call, leaves
\* collection and store as they were, and returns success.
C19_NoDayFromCutoffOn ==
    (log /= <<>> /\ log[1].ok /\ Earliest0 >= target) =>
        /\ \A k \in Pos : log[k].op \notin DayCalls
        /\ docs = docs0 /\ files = files0
        /\ Done => (err = Nil /\ total = 0)

\* archiveDocuments is between Create and its return.
Writing == pc \in {"Find", "Iter", "Err", "gwClose", "wClose"}

\* C20: the gzip writer is closed first and the sink second.  For every
\* Day whose Create succeeded, however the archive step ends (success,
\* write error, extraction error, close error), the step returns right
\* after gw.Close and then w.Close of that Day, the only calls after Create
\* besides the extraction; each is made once for the Day; so both come
\* before the Day's delete step and before any call of a later Day, and a
\* Create is never made while an earlier sink is open.  The sink and the
\* gzip writer are open exactly while the Day is being written, the gzip
\* writer until its close; neither is open in the delete step, in the
\* pacing step or when Run has returned.
C20_CloseGzipThenSink ==
    /\ \A k \in Pos :
          (log[k].op = "Create" /\ log[k].ok) =>
              LET d == log[k].date IN
              IF Writing /\ date = d
              THEN /\ \A j \in (k + 1) .. Len(log) :
                         log[j].date = d
                         /\ log[j].op \in {"FindAllFromDate", "gw.Close"}
                   /\ (pc = "wClose") = (log[Len(log)].op = "gw.Close")
              ELSE /\ Len(log) >= k + 3
                   /\ \E m \in (k + 1) .. (k + 2) :
                         /\ \A j \in (k + 1) .. (m - 1) :
                               log[j].op = "FindAllFromDate" /\ log[j].date = d
                         /\ log[m].op = "gw.Close" /\ log[m].date = d
                         /\ log[m + 1].op = "w.Close" /\ log[m + 1].date = d
                         /\ log[m + 2].op = "archiveDocuments" /\ log[m + 2].date = d
                         /\ \A j \in Pos :
                               (log[j].date = d /\ log[j].op \in {"gw.Close", "w.Close"}) =>
                                   j \in {m, m + 1}
    /\ \A k \in Pos :
          log[k].op \in {"gw.Close", "w.Close"} =>
              \E j \in 1 .. (k - 1) : log[j] = Call("Create", log[k].date, TRUE)
    /\ IF Writing
       THEN /\ wr.w = "open"
            /\ wr.gw = IF pc = "wClose" THEN "closed" ELSE "open"
       ELSE wr.w /= "open" /\ wr.gw /= "open"

\* A run archived and deleted one Day, then failed writing a document of
\* the next: the gzip writer's close reported the write error, the sink was
\* closed after it, and Run returned with both closed.
C20_Witness ==
    /\ Done /\ total = 1 /\ ~a.skipDelete
    /\ Is(err, "write fault")
    /\ Len(log) > 3
    /\ log[Len(log) - 2] = Call("gw.Close", date, FALSE)
    /\ log[Len(log) - 1] = Call("w.Close", date, TRUE)
    /\ log[Len(log)] = Call("archiveDocuments", date, FALSE)
    /\ wr.w = "closed" /\ wr.gw = "closed"

\* The error Run returns when the archive step failed with the chain msgs
\* among its errors.
InArchiveError(msgs) ==
    (<<"archival failed", "failed to archive documents">> \o msgs) \in err

\* The archive step of the current Day stopped on a failed write.
WriteFailed == wr.gwErr /= Nil

\* C21: no failure of the archive step is dropped.  When the archive step
\* of a Day returns after Create, the error Run returns holds every failure
\* that occurred: the write error when a write failed, every error of the
\* extraction's terminal error when the iteration ended by itself, the
\* gzip writer's close error when gw.Close failed and the sink's close
\* error when w.Close failed; and it holds nothing else.
C21_AllFailuresJoined ==
    (Done /\ log /= <<>> /\ log[Len(log)].op = "archiveDocuments"
        /\ Returned("Create", date, TRUE)) =>
        LET primary == IF WriteFailed THEN New("write fault") ELSE res.err
            gzFailed == Returned("gw.Close", date, FALSE)
            wFailed == Returned("w.Close", date, FALSE)
            gzLeaf == IF WriteFailed THEN "write fault" ELSE "gzip close fault"
        IN  /\ \A c \in primary : InArchiveError(c)
            /\ gzFailed => InArchiveError(<<"failed to close gzip writer", gzLeaf>>)
            /\ wFailed => InArchiveError(<<"failed to close file", "close fault">>)
            /\ Cardinality(err) = Cardinality(primary)
                                    + (IF gzFailed THEN 1 ELSE 0)
                                    + (IF wFailed THEN 1 ELSE 0)
            /\ WriteFailed => gzFailed

\* After a document was written the extraction failed, and so did the
\* close of the gzip writer and the close of the sink: Run's error holds the
\* three of them.
C21_Witness ==
    /\ Done
    /\ Cardinality(err) = 3
    /\ res.yielded /= <<>>
    /\ InArchiveError(<<"cursor fault">>)
    /\ InArchiveError(<<"failed to close gzip writer", "gzip close fault">>)
    /\ InArchiveError(<<"failed to close file", "close fault">>)

\* The archive step of the current Day has returned after its iteration
\* ended by itself with a terminal error.
ExtractionFailed ==
    /\ Done /\ ~WriteFailed /\ res.err /= Nil
    /\ log /= <<>> /\ log[Len(log)].op = "archiveDocuments"

\* A terminal error fails the Day: the archive step fails with it, also when
\* every document yielded was written and both closes succeeded, and the
\* Day's documents are not deleted.
TerminalErrorFailsDay ==
    /\ ExtractionFailed =>
          /\ ~log[Len(log)].ok
          /\ \A c \in res.err : InArchiveError(c)
          /\ ~Called("DeleteAllFromDate", date)
          /\ OnDay(docs, date \div Day) = OnDay(docs0, date \div Day)
    /\ pc \in {"Delete", "select"} => res.err = Nil

\* C22 as stated: the terminal error of the streaming result is read after
\* the gzip writer and the sink were closed; when it is set the Day fails.
C22_TerminalErrorAfterCloses ==
    /\ pc = "Err" => (wr.gw = "closed" /\ wr.w = "closed")
    /\ TerminalErrorFailsDay

\* C22, amended: the terminal error is read when the iteration has ended,
\* before the deferred closes run: the gzip writer and the sink are both
\* still open then and neither close was called for the Day.  When it is
\* set the Day fails as stated, the closes run after it, and their errors
\* are joined to it.
C22_TerminalErrorBeforeCloses ==
    /\ pc = "Err" =>
          /\ wr.gw = "open" /\ wr.w = "open"
          /\ res.cursor /= "open"
          /\ log[Len(log)] = Call("FindAllFromDate", date, res.cursor = "closed")
    /\ TerminalErrorFailsDay
    /\ ExtractionFailed =>
          /\ log[Len(log) - 2].op = "gw.Close"
          /\ log[Len(log) - 1].op = "w.Close"

\* Every document of the Day was yielded and written, the cursor's close
\* failed, both closes succeeded and the file is complete: the archive step
\* failed with the terminal error alone and the Day's documents are kept.
C22_Witness ==
    /\ ExtractionFailed
    /\ ~a.skipDelete
    /\ err = ArchiveError(<<"cursor fault">>)
    /\ res.yielded /= <<>>
    /\ res.yielded = OnDay(docs0, date \div Day)
    /\ Returned("gw.Close", date, TRUE)
    /\ Returned("w.Close", date, TRUE)
    /\ Len(read(files[date \div Day])) = Len(res.yielded)
    /\ OnDay(docs, date \div Day) = res.yielded

\* C23: the terminal error is read also after an early stop.  When the
\* archive step stops iterating because a write to the gzip writer failed,
\* every error the streaming result holds by then (a fault of the cursor's
\* close) is part of the error Run returns.
C23_TerminalErrorReadAfterWriteFailure ==
    (Done /\ WriteFailed /\ log /= <<>> /\ log[Len(log)].op = "archiveDocuments") =>
        /\ InArchiveError(<<"write fault">>)
        /\ \A c \in res.err : InArchiveError(c)

\* C24: cancellation takes effect only between Days.  Run never returns
\* the cancellation outcome from inside a Day: when it returns it, the Day
\* at the cursor has run to its end, the last call being that Day's
\* successful DeleteAllFromDate (its successful archive step when deletion
\* is off); if the Day's file was created, every document of the Day was
\* yielded and written, the gzip writer and the sink were closed and the
\* file is complete; with deletion enabled the Day's documents are gone.
C24_CancelOnlyBetweenDays ==
    /\ (ctxDone /\ pc \notin {"select", "done"}) => ~Is(err, "context canceled")
    /\ (Done /\ err = CtxErr) =>
          /\ ctxDone /\ total >= 1 /\ log /= <<>>
          /\ log[Len(log)] = Call(IF a.skipDelete THEN "archiveDocuments"
                                                  ELSE "DeleteAllFromDate", date, TRUE)
          /\ wr.w /= "open" /\ wr.gw /= "open"
          /\ Returned("Create", date, TRUE) =>
                /\ Returned("gw.Close", date, TRUE)
                /\ Returned("w.Close", date, TRUE)
                /\ res.pending = <<>>
                /\ read(files[date \div Day]) =
                      [i \in 1 .. Len(res.yielded) |-> <<res.yielded[i].id>>]
          /\ ~a.skipDelete => OnDay(docs, date \div Day) = <<>>

\* With a positive delay, the context was cancelled after the pacing step
\* that followed the first Day; the second Day went on all the same: its
\* documents are written, both closes are done, its delete step is next.
C24_Witness ==
    /\ ctxDone /\ a.delay = 1 /\ total = 1
    /\ pc = "Delete"
    /\ res.yielded /= <<>> /\ res.pending = <<>>
    /\ Returned("w.Close", date, TRUE)
    /\ Len(read(files[date \div Day])) = Len(res.yielded)

\* C25: the first failure ends the run and nothing is tried again.  In the
\* history of a run no two Exists, no two Create, no two FindAllFromDate
\* and no two DeleteAllFromDate calls are for the same Day; after a call
\* that failed no further Exists, Create, FindAllFromDate or
\* DeleteAllFromDate is made, for that Day or a later one; and a run in
\* which a call failed returns an error.
C25_FirstFailureEndsRun ==
    /\ \A k \in Pos :
          /\ log[k].op \in DayCalls =>
                \A j \in 1 .. (k - 1) :
                    log[j].op = log[k].op => log[j].date \div Day /= log[k].date \div Day
          /\ ~log[k].ok =>
                /\ \A j \in (k + 1) .. Len(log) : log[j].op \notin DayCalls
                /\ Done => err /= Nil
    /\ (Done /\ err /= Nil) => ~log[Len(log)].ok

\* A run archived and deleted one Day, and the extraction of the next
\* failed at the query: the closes and the return of the archive step are
\* all that followed.
C25_Witness ==
    /\ Done /\ total = 1 /\ ~a.skipDelete
    /\ Len(log) > 4
    /\ log[Len(log) - 3] = Call("FindAllFromDate", date, FALSE)
    /\ log[Len(log) - 2].op = "gw.Close"
    /\ log[Len(log) - 1].op = "w.Close"
    /\ log[Len(log)] = Call("archiveDocuments", date, FALSE)
    /\ Is(err, "find fault")
    /\ OnDay(docs, date \div Day) /= <<>>

\* This run created the file of r's Day and closed the gzip writer and the
\* sink without error.
WrittenInFull(r) ==
    LET d == Midnight(r.createdAt \div Day) IN
    /\ Returned("Create", d, TRUE)
    /\ Returned("gw.Close", d, TRUE)
    /\ Returned("w.Close", d, TRUE)
    /\ Returned("archiveDocuments", d, TRUE)

\* C26: no document is lost in a run under the default policy.  In every
\* state of the run, whatever calls failed, every document the run has
\* removed from the collection can be read back from the file of its Day,
\* which this run created, wrote in full and closed without error.
C26_DeletedIsArchived ==
    ~a.ignoreFileExistsError =>
        \A i \in 1 .. Len(docs0) :
            InSource(docs0[i]) \/ (InArchive(docs0[i]) /\ WrittenInFull(docs0[i]))

\* Under the default policy a run archived and deleted the document of one
\* Day, then failed to close the sink of the next Day, whose document is
\* still in the collection.
C26_Witness ==
    /\ Done /\ ~a.ignoreFileExistsError
    /\ Is(err, "close fault")
    /\ Len(docs0) = 2 /\ Len(docs) = 1
    /\ \E i \in 1 .. 2 : ~InSource(docs0[i]) /\ InArchive(docs0[i])
    /\ OnDay(docs, date \div Day) /= <<>>

\* The document another client inserted with call k of the history.
InsertedAt(k) == [id |-> NumDocs + Inserts(k), createdAt |-> log[k].date]

\* C27: the delete step removes only what was archived.  Also when another
\* client inserts a document into a Day's window between the end of the
\* Day's extraction and its DeleteAllFromDate, every document that is gone
\* from the collection, one the run started with or one inserted since,
\* can be read back from the file of its Day.
C27_DeleteOnlyArchived ==
    /\ \A i \in 1 .. Len(docs0) : InSource(docs0[i]) \/ InArchive(docs0[i])
    /\ \A k \in Pos :
          log[k].op = "Insert" => (InSource(InsertedAt(k)) \/ InArchive(InsertedAt(k)))

\* The archive step of Day d created d's file and then failed, in history l.
FailedAfterCreate(l, d) ==
    /\ \E j \in 1 .. Len(l) : l[j] = Call("Create", d, TRUE)
    /\ \E j \in 1 .. Len(l) : l[j] = Call("archiveDocuments", d, FALSE)

\* C28: over two runs from an empty store, the second under any policy, a
\* document is gone from the collection only if the file of its Day holds
\* it; and a second run under the ignore-existing policy never takes for
\* the archive of a Day a file whose archive step failed in the first run
\* after Create had succeeded.
C28_DeletedOnlyIfInFile ==
    /\ \A i \in 1 .. Len(Original) :
          InSource(Original[i]) \/ InArchive(Original[i])
    /\ (run = 2 /\ a.ignoreFileExistsError) =>
          \A k \in Pos :
              (log[k] = Call("Exists", log[k].date, TRUE))
                  => ~FailedAfterCreate(prev[1].log, log[k].date)

\* This run has written document r to the file of its Day.
ArchivedByRun(r) ==
    /\ files[r.createdAt \div Day] /= files0[r.createdAt \div Day]
    /\ InArchive(r)

\* C29: the cutoff is exclusive for documents.  For every cutoff, also one
\* that is not a midnight and falls inside a Day, a document whose timestamp
\* is at or after the cutoff stays in the collection and is not written to
\* an archive file by the run.
C29_NothingFromCutoffOn ==
    \A i \in 1 .. Len(docs0) :
        docs0[i].createdAt >= target =>
            InSource(docs0[i]) /\ ~ArchivedByRun(docs0[i])

\* A Day before the cutoff follows the Day at the cursor.
DayLeft == LoopCond(NextDate(date), target)

\* C30: no pacing and no cancellation after the last Day.  Run is at the
\* select only when a Day before the cutoff is left to process, and it
\* returns the cancellation outcome only then: once the last Day in range
\* has completed its archive and delete steps, Run does not wait and a
\* cancellation signalled from then on does not change its success.
C30_CancelledOnlyWithDayLeft ==
    /\ pc = "select" => DayLeft
    /\ (Done /\ err = CtxErr) => DayLeft

====
